---- MODULE Spec2Model ----
(***************************************************************************)
(* Model of the cooperative event loop core/src/trezor/loop.py: the three  *)
(* scheduler tables (_queue, _paused, _finalizers), run(), _step(),        *)
(* schedule/pause/finalize/close and the syscalls sleep, wait, race and    *)
(* chan.  The model follows the debug build (__debug__ true: assertions    *)
(* are active and the synthetic event queue exists).                       *)
(*                                                                         *)
(* Generators (tasks) are the integers 1..NumTasks.  The wait object a     *)
(* task awaits is WaitObj(t); the race object a task awaits is identified  *)
(* by the awaiting task.  Values travelling through the loop are integers: *)
(* 0 is None, 100+d is the deadline d, 2xx are driver event values, 3xx    *)
(* channel values, 4xx exception objects, 500 wait._TIMEOUT_INDICATOR and  *)
(* 600+t the return value of task t.  One clock tick is 1000000 us.        *)
(***************************************************************************)
EXTENDS Integers, Sequences, FiniteSets, TLC

\* ------------------------------------------------------------------ bounds
NumTasks == 4          \* generators that can exist in one behaviour
MaxChildren == 2       \* children of one race
MaxSyscalls == 3       \* syscalls the tasks may yield in one behaviour
MaxSynthetic == 1      \* length of the synthetic event queue
HalfPeriod == 2        \* half of the period of the wrapping tick counter
NumIfaces == 2         \* message interfaces
NumEventVals == 1      \* distinct driver event values
NumChanVals == 2       \* distinct channel values
MaxPublished == 2      \* values chan.publish may leave parked in putters

TicksPeriod == 2 * HalfPeriod
MaxSleep == HalfPeriod - 1      \* sleep delays stay inside the wrap-safe window

\* --------------------------------------------------------- program constants
QueueCapacity == 64    \* utimeq.utimeq(64)
PollCap == 1           \* delay = 1000000 us when the queue is empty (one tick)

None == 0
GeneratorExit == 401
TaskError == 402       \* an exception raised by the task's own code
KeyError == 403
AttributeError == 404
RuntimeError == 405
TypeError == 406
AssertionError == 407
IndexError == 408
TIMEOUT_ERROR == 409   \* _TIMEOUT_ERROR = SyscallTimeout()
TIMEOUT_INDICATOR == 500

NoFin == 0 - 1         \* no entry in _finalizers
ExtFin == 0            \* a finalizer given by the caller of schedule()

Tasks == 1 .. NumTasks
WaitObj(t) == NumTasks + t
Waits == {WaitObj(t) : t \in Tasks}
WaitOwner(w) == w - NumTasks
Ifaces == 1 .. NumIfaces
EventVals == {200 + k : k \in 1 .. NumEventVals}
ChanVals == {300 + k : k \in 1 .. NumChanVals}
DeadlineVal(d) == 100 + d
RetVal(t) == 600 + t

\* isinstance(value, BaseException)
IsBaseException(v) == v \in 400 .. 499
\* caught by "except Exception": GeneratorExit derives from BaseException only
IsException(v) == IsBaseException(v) /\ v # GeneratorExit

Min2(a, b) == IF a < b THEN a ELSE b
Max2(a, b) == IF a > b THEN a ELSE b

\* utime.ticks_add / utime.ticks_diff on the wrapping counter
ticks_add(a, d) == (a + d) % TicksPeriod
ticks_diff(a, b) == ((a - b + HalfPeriod) % TicksPeriod) - HalfPeriod

VARIABLES
    queue,            \* _queue: entries [deadline, task, value] in pop order
    paused,           \* _paused: iface -> set of paused objects
    finalizers,       \* _finalizers: task -> NoFin / ExtFin / race of caller c
    synthetic_events, \* synthetic_events: sequence of <<iface, value>>
    gen,              \* generator state: "fresh", "susp" or "done"
    awk,              \* what a suspended generator awaits
    wif,              \* wait.msg_iface of the wait the task awaits
    wto,              \* wait.timeout_us is not None
    putv,             \* chan.Put.value of the put the task awaits
    callback,         \* wait.callback (None = 0)
    rcallback,        \* race.callback
    scheduled,        \* race.scheduled
    finished,         \* race.finished
    putters,          \* chan.putters: <<task or None, value>>
    takers,           \* chan.takers
    now,              \* utime.ticks_us()
    alloc,            \* generators created so far are 1..alloc
    budget,           \* syscalls the tasks may still yield
    spawned,          \* generators scheduled from outside the loop so far
    menu,             \* the program of this behaviour: the syscalls its tasks
                      \* use (ops) and the tasks scheduled from outside (roots)
    run_state,        \* "idle" before run() is called, then "running",
                      \* "returned" or "failed" (an exception left run())
    err,              \* exception that escaped the last operation (0 = none)
    obs               \* observations of the history, used by the properties

vars == <<queue, paused, finalizers, synthetic_events, gen, awk, wif, wto, putv,
          callback, rcallback, scheduled, finished, putters, takers, now, alloc,
          budget, spawned, menu, run_state, err, obs>>


\* What the code of a task does when it is resumed: an operation with its
\* argument (a) and, for wait, whether a timeout is given (to).
Op(op, a, to) == [op |-> op, a |-> a, to |-> to]

\* No generator has been resumed yet in the call in progress.
NoResult == [kind |-> "none", v |-> 0, c |-> Op("none", 0, FALSE)]

\* The program state as one record, threaded through the nested calls of one
\* operation.  exc is the exception propagating out of the call in progress,
\* res the outcome of the last task.send / task.throw: StopIteration with a
\* value ("stop"), an exception ("raise") or a yielded object ("yield").
\* steps lists the calls of _step(task, value) made by the operation and hooks
\* counts the calls of after_step_hook, which is taken to be installed.
State ==
    [queue |-> queue, paused |-> paused, finalizers |-> finalizers,
     synthetic_events |-> synthetic_events, gen |-> gen, awk |-> awk,
     wif |-> wif, wto |-> wto, putv |-> putv, callback |-> callback,
     rcallback |-> rcallback, scheduled |-> scheduled, finished |-> finished,
     putters |-> putters, takers |-> takers, now |-> now, alloc |-> alloc,
     budget |-> budget, obs |-> obs, exc |-> 0, res |-> NoResult,
     steps |-> <<>>, hooks |-> 0]

Raise(s, e) == [s EXCEPT !.exc = e]

\* ----------------------------------------------------------- utimeq (C module)
\* position after the entries that pop no later than deadline
QueueSlot(q, deadline) ==
    Cardinality({i \in 1 .. Len(q) : ticks_diff(q[i].deadline, deadline) <= 0})

QueueInsert(q, k, e) == SubSeq(q, 1, k) \o <<e>> \o SubSeq(q, k + 1, Len(q))

\* utimeq.push: IndexError when the queue is full; entries pop in deadline
\* order, equal deadlines in insertion order.
QueuePush(s, deadline, task, value) ==
    IF Len(s.queue) >= QueueCapacity
    THEN Raise(s, IndexError)
    ELSE [s EXCEPT !.queue =
             QueueInsert(@, QueueSlot(@, deadline),
                         [deadline |-> deadline, task |-> task, value |-> value])]

QueueWithout(q, task) ==
    LET keep == {i \in 1 .. Len(q) : q[i].task # task}
        Nth(n) == CHOOSE i \in keep : Cardinality({j \in keep : j <= i}) = n
    IN  [n \in 1 .. Cardinality(keep) |-> q[Nth(n)]]

\* utimeq.discard: remove the entries of a task
QueueDiscard(s, task) == [s EXCEPT !.queue = QueueWithout(@, task)]

QueueTasks(q) == {q[i].task : i \in 1 .. Len(q)}

\* ------------------------------------------------------------------ _paused
\* _paused[iface].discard(obj): KeyError when iface is no key of _paused
PausedDiscardKey(s, iface, obj) ==
    IF iface \notin DOMAIN s.paused
    THEN Raise(s, KeyError)
    ELSE [s EXCEPT !.paused[iface] = @ \ {obj}]

\* for iface in _paused: _paused[iface].discard(task)
PausedDiscardAll(s, task) ==
    [s EXCEPT !.paused = [i \in DOMAIN @ |-> @[i] \ {task}]]

\* _paused.get(iface, ()) in the place of the pop: the entry stays in the
\* table while its tasks are stepped.
PausedKept(s, iface) == s

\* _paused.pop(iface, ())
PausedPop(s, iface) ==
    [s EXCEPT !.paused = [i \in DOMAIN @ \ {iface} |-> @[i]]]

PausedGet(p, iface) == IF iface \in DOMAIN p THEN p[iface] ELSE {}

PausedObjs(p) == UNION {p[i] : i \in DOMAIN p}

\* --------------------------------------------------------- schedule / pause
schedule(s, task, value, deadline, finalizer) ==
    QueuePush(IF finalizer # NoFin
              THEN [s EXCEPT !.finalizers[task] = finalizer]
              ELSE s,
              deadline, task, value)

pause(s, task, iface) ==
    [s EXCEPT !.paused =
        [i \in DOMAIN @ \cup {iface} |->
            IF i = iface THEN PausedGet(@, iface) \cup {task} ELSE @[i]]]

\* ------------------------------------------------------------------- chan
FirstIndex(seq, x) ==
    CHOOSE i \in 1 .. Len(seq) : seq[i] = x /\ \A j \in 1 .. i - 1 : seq[j] # x

\* if x in seq: seq.remove(x)
RemoveFirst(seq, x) ==
    IF \E i \in 1 .. Len(seq) : seq[i] = x
    THEN SubSeq(seq, 1, FirstIndex(seq, x) - 1)
             \o SubSeq(seq, FirstIndex(seq, x) + 1, Len(seq))
    ELSE seq

\* schedule(putter) after schedule(taker, value)
schedule_putter(s, putter) ==
    IF s.exc # 0 \/ putter = None
    THEN s
    ELSE schedule(s, putter, None, s.now, NoFin)

\* A _schedule_put that parks the putter without looking at takers.
schedule_put_parks(s, putter, value) ==
    [s EXCEPT !.putters = Append(@, <<putter, value>>)]

\* A _schedule_put that schedules the putter before the taker.
schedule_put_putter_first(s, putter, value) ==
    IF s.takers # <<>>
    THEN schedule(schedule([s EXCEPT !.takers = Tail(@)],
                           putter, None, s.now, NoFin),
                  Head(s.takers), value, s.now, NoFin)
    ELSE [s EXCEPT !.putters = Append(@, <<putter, value>>)]

schedule_put(s, putter, value) ==
    IF s.takers # <<>>
    THEN schedule_putter(schedule([s EXCEPT !.takers = Tail(@)],
                                  Head(s.takers), value, s.now, NoFin),
                         putter)
    ELSE [s EXCEPT !.putters = Append(@, <<putter, value>>)]

\* A _schedule_take that takes the entry parked last.
schedule_take_last(s, taker) ==
    IF s.putters # <<>>
    THEN schedule_putter(schedule([s EXCEPT !.putters = SubSeq(@, 1, Len(@) - 1)],
                                  taker, s.putters[Len(s.putters)][2], s.now, NoFin),
                         s.putters[Len(s.putters)][1])
    ELSE [s EXCEPT !.takers = Append(@, taker)]

schedule_take(s, taker) ==
    IF s.putters # <<>>
    THEN schedule_putter(schedule([s EXCEPT !.putters = Tail(@)],
                                  taker, Head(s.putters)[2], s.now, NoFin),
                         Head(s.putters)[1])
    ELSE [s EXCEPT !.takers = Append(@, taker)]

publish(s, value) ==
    IF s.takers # <<>>
    THEN schedule([s EXCEPT !.takers = Tail(@)], Head(s.takers), value, s.now, NoFin)
    ELSE [s EXCEPT !.putters = Append(@, <<None, value>>)]


\* ------------------------------------------------- finalize / close / race
RECURSIVE close(_, _), race_exit(_, _, _, _), finalize(_, _, _)

\* one iteration of the loop of race.exit
race_exit_one(s, c, except_for, i) ==
    IF s.scheduled[c][i] # except_for THEN close(s, s.scheduled[c][i]) ELSE s

\* race.exit(except_for), from the i-th element of self.scheduled on; an
\* exception raised by close() ends the loop
race_exit(s, c, except_for, i) ==
    IF s.exc # 0 \/ i > Len(s.scheduled[c])
    THEN s
    ELSE race_exit(race_exit_one(s, c, except_for, i), c, except_for, i + 1)

\* schedule(self.callback, result) at the end of race._finish
race_resumed(s, c, result) ==
    IF s.exc # 0
    THEN s
    ELSE [s EXCEPT !.obs.raceSched[c] = Min2(@ + 1, 2),
                   !.obs.raceVal[c] = result]

\* self.exit(task) has returned
race_resume(s, c, result) ==
    IF s.exc # 0
    THEN s
    ELSE race_resumed(schedule(s, s.rcallback[c], result, s.now, NoFin), c, result)

\* A race._finish without the test of self.finished.
race_finish_unguarded(s, c, task, result) ==
    race_resume(race_exit([s EXCEPT !.finished[c] = TRUE], c, task, 1), c, result)

\* race._finish(task, result) of the race awaited by c
race_finish(s, c, task, result) ==
    IF ~s.finished[c]
    THEN race_resume(race_exit([s EXCEPT !.finished[c] = TRUE], c, task, 1),
                     c, result)
    ELSE s

\* fn = _finalizers.pop(id(task)), about to be called with value
finalizer_popped(s, task, value) ==
    [s EXCEPT !.finalizers[task] = NoFin,
              !.obs.finCalls[task] = Min2(@ + 1, 2),
              !.obs.finRes[task] = value,
              !.obs.firstFin =
                  IF s.finalizers[task] \in Tasks /\ @[s.finalizers[task]] = NoFin
                  THEN [@ EXCEPT ![s.finalizers[task]] = value]
                  ELSE @]

\* finalize(task, value): pop the finalizer and call it
finalize(s, task, value) ==
    IF task \notin Tasks \/ s.finalizers[task] = NoFin
    THEN s
    ELSE IF s.finalizers[task] = ExtFin
    THEN finalizer_popped(s, task, value)
    ELSE race_finish(finalizer_popped(s, task, value),
                     s.finalizers[task], task, value)

\* The except clauses with a chan.put that removes the entry (None, value), as
\* if Put.handle had not recorded the task.
iter_cleanup_put_without_task(s, t) ==
    CASE s.awk[t] = "wait" ->
            PausedDiscardKey(QueueDiscard(s, WaitObj(t)), s.wif[t], WaitObj(t))
      [] s.awk[t] = "race" -> race_exit(s, t, None, 1)
      [] s.awk[t] = "put" ->
            [s EXCEPT !.putters = RemoveFirst(@, <<None, s.putv[t]>>)]
      [] s.awk[t] = "take" ->
            [s EXCEPT !.takers = RemoveFirst(@, t)]
      [] OTHER -> s

\* The except clauses with a chan.put / chan.take that removes the entry at
\* the head of the queue instead of its own.
iter_cleanup_pops_head(s, t) ==
    CASE s.awk[t] = "wait" ->
            PausedDiscardKey(QueueDiscard(s, WaitObj(t)), s.wif[t], WaitObj(t))
      [] s.awk[t] = "race" -> race_exit(s, t, None, 1)
      [] s.awk[t] = "put" ->
            [s EXCEPT !.putters = IF @ = <<>> THEN @ ELSE Tail(@)]
      [] s.awk[t] = "take" ->
            [s EXCEPT !.takers = IF @ = <<>> THEN @ ELSE Tail(@)]
      [] OTHER -> s

\* The except: clauses of wait.__iter__, race.__iter__, chan.put and chan.take,
\* run when an exception is raised at the yield the task is suspended at.
\* The result carries the exception a clause raised itself, if any.
iter_cleanup(s, t) ==
    CASE s.awk[t] = "wait" ->
            PausedDiscardKey(QueueDiscard(s, WaitObj(t)), s.wif[t], WaitObj(t))
      [] s.awk[t] = "race" -> race_exit(s, t, None, 1)
      [] s.awk[t] = "put" ->
            [s EXCEPT !.putters = RemoveFirst(@, <<t, s.putv[t]>>)]
      [] s.awk[t] = "take" ->
            [s EXCEPT !.takers = RemoveFirst(@, t)]
      [] OTHER -> s

\* the generator has ended
gen_ended(s, t) == [s EXCEPT !.gen[t] = "done", !.awk[t] = "none"]

\* task.close(): GeneratorExit is raised at the yield of a suspended
\* generator; a generator that was never started or has ended just stays
\* ended; wait.close() does nothing
gen_close(s, t) ==
    IF t \notin Tasks
    THEN s
    ELSE IF s.gen[t] = "susp"
    THEN gen_ended(iter_cleanup(s, t), t)
    ELSE gen_ended(s, t)

\* finalize(task, GeneratorExit()) at the end of close(), not reached when
\* task.close() raised
close_finalize(s, task) ==
    IF s.exc # 0 THEN s ELSE finalize(s, task, GeneratorExit)

close(s, task) ==
    close_finalize(gen_close(QueueDiscard(PausedDiscardAll(s, task), task), task),
                   task)


\* ------------------------------------------------------------ syscall.handle
RECURSIVE race_schedule(_, _, _, _)

\* scheduled.append(child_task), not reached when schedule() raised
race_scheduled(s, c, child) ==
    IF s.exc # 0 THEN s ELSE [s EXCEPT !.scheduled[c] = Append(@, child)]

\* the loop of race.handle over self.children: the children are the
\* generators first .. last
race_schedule(s, c, first, last) ==
    IF s.exc # 0 \/ first > last
    THEN s
    ELSE race_schedule(race_scheduled(schedule(s, first, None, s.now, c), c, first),
                       c, first + 1, last)

race_handle(s, task, k) ==
    race_schedule([s EXCEPT !.rcallback[task] = task,
                            !.scheduled[task] = <<>>,
                            !.finished[task] = FALSE,
                            !.obs.raceSched[task] = 0,
                            !.obs.raceVal[task] = None,
                            !.obs.firstFin[task] = NoFin,
                            !.alloc = @ + k],
                  task, s.alloc + 1, s.alloc + k)

\* A sleep.handle that leaves out deadline=deadline in its call of schedule.
sleep_handle_due_now(s, task, delay_us) ==
    schedule(s, task, DeadlineVal(ticks_add(s.now, delay_us)), s.now, NoFin)

sleep_handle(s, task, delay_us) ==
    schedule(s, task, DeadlineVal(ticks_add(s.now, delay_us)),
             ticks_add(s.now, delay_us), NoFin)

\* wait.handle: the attribute wait._TIMEOUT_ERROR does not exist, so the
\* evaluation of the arguments of schedule() raises AttributeError
wait_handle(s, task) ==
    IF s.wto[task]
    THEN Raise(pause(s, WaitObj(task), s.wif[task]), AttributeError)
    ELSE pause(s, WaitObj(task), s.wif[task])

syscall_handle(s, task, c) ==
    CASE c.op = "sleep" -> sleep_handle(s, task, c.a)
      [] c.op = "wait"  -> wait_handle(s, task)
      [] c.op = "race"  -> race_handle(s, task, c.a)
      [] c.op = "put"   -> schedule_put(s, task, c.a)
      [] c.op = "take"  -> schedule_take(s, task)
      [] OTHER -> s

\* ---------------------------------------------------------------------- _step
RECURSIVE step(_, _, _, _)

Stopped(v) == [kind |-> "stop", v |-> v, c |-> Op("none", 0, FALSE)]
Raised(e) == [kind |-> "raise", v |-> e, c |-> Op("none", 0, FALSE)]
Yielded(c) == [kind |-> "yield", v |-> 0, c |-> c]

\* the task code between two yields, as chosen by c; value was sent to it
gen_continue(s, t, c, value) ==
    CASE c.op = "return" ->
            [s EXCEPT !.obs.lastSent[t] = value, !.awk[t] = "none",
                      !.gen[t] = "done",
                      !.res = Stopped(IF c.a = 1 THEN value ELSE RetVal(t))]
      [] c.op = "raise" ->
            [s EXCEPT !.obs.lastSent[t] = value, !.awk[t] = "none",
                      !.gen[t] = "done", !.res = Raised(TaskError)]
      [] c.op = "bad" ->
            \* the task yields None, which is no Syscall
            [s EXCEPT !.obs.lastSent[t] = value, !.awk[t] = "none",
                      !.gen[t] = "susp", !.res = Yielded(c)]
      [] OTHER ->
            [s EXCEPT !.obs.lastSent[t] = value, !.awk[t] = c.op,
                      !.gen[t] = "susp", !.res = Yielded(c),
                      !.budget = @ - 1,
                      !.wif[t] = IF c.op = "wait" THEN c.a ELSE @,
                      !.wto[t] = IF c.op = "wait" THEN c.to ELSE @,
                      !.callback[t] = IF c.op = "wait" THEN None ELSE @,
                      !.putv[t] = IF c.op = "put" THEN c.a ELSE @]

\* task.throw(value) on a suspended generator, after the except: clause at
\* its yield has run: the generator ends with the exception the clause
\* raised itself, or else with the re-raised value
gen_thrown(s, t, value) ==
    [s EXCEPT !.exc = 0, !.gen[t] = "done", !.awk[t] = "none",
              !.obs.lastSent[t] = value,
              !.res = Raised(IF s.exc # 0 THEN s.exc ELSE value)]

\* task.send(value) / task.throw(value) of a generator
gen_resume(s, ch, t, value) ==
    IF s.gen[t] = "done"
    THEN \* send() raises StopIteration; throw() raises the exception or
         \* StopIteration
         [s EXCEPT !.obs.deadSteps = @ \cup {t},
                   !.res = IF IsBaseException(value) /\ ch[t].op = "reraise"
                           THEN Raised(value)
                           ELSE Stopped(None)]
    ELSE IF s.gen[t] = "fresh" /\ IsBaseException(value)
    THEN [s EXCEPT !.gen[t] = "done", !.res = Raised(value)]
    ELSE IF s.gen[t] = "fresh" /\ value # None
    THEN [s EXCEPT !.gen[t] = "done", !.res = Raised(TypeError)]
    ELSE IF IsBaseException(value)
    THEN gen_thrown(iter_cleanup(s, t), t, value)
    ELSE gen_continue(s, t, ch[t], value)

\* entry of _step(task, value)
step_begin(s, task, value) == [s EXCEPT !.steps = Append(@, <<task, value>>)]

\* "if after_step_hook: after_step_hook()", the last statement of the else
\* clause of _step: reached only when result.handle(task) has returned
after_step_hook(s) == IF s.exc # 0 THEN s ELSE [s EXCEPT !.hooks = @ + 1]

\* the except and else clauses of _step: StopIteration and "except Exception"
\* finalize the task, any other exception (GeneratorExit) leaves _step, a
\* Syscall is handled and anything else raises RuntimeError
step_result(s, task) ==
    CASE s.res.kind = "stop" \/ (s.res.kind = "raise" /\ IsException(s.res.v)) ->
            finalize(s, task, s.res.v)
      [] s.res.kind = "raise" -> Raise(s, s.res.v)
      [] s.res.kind = "yield" /\ s.res.c.op = "bad" -> Raise(s, RuntimeError)
      [] OTHER -> after_step_hook(syscall_handle(s, task, s.res.c))

\* _step(task, value) for a generator
gen_step(s, ch, t, value) ==
    step_result(gen_resume(step_begin(s, t, value), ch, t, value), t)

\* an exception leaving wait.send / wait.throw is caught by the _step that
\* resumed the wait object; finalize() finds no finalizer for it.  When
\* they return _DO_NOT_RESCHEDULE, a Syscall whose handle() does nothing,
\* the else clause runs to its end.
wait_contain(s) ==
    IF IsException(s.exc) THEN [s EXCEPT !.exc = 0] ELSE after_step_hook(s)

\* _step(self.callback, value), not reached when the cleanup raised
wait_callback(s, ch, t, value) ==
    IF s.exc # 0 THEN s ELSE step(s, ch, s.callback[t], value)

\* the cleanup of wait.send
wait_send_cleanup(s, t, value) ==
    IF value = TIMEOUT_INDICATOR
    THEN PausedDiscardKey(s, s.wif[t], WaitObj(t))
    ELSE IF s.wto[t] THEN QueueDiscard(s, WaitObj(t)) ELSE s

\* wait.send(value) of the wait object awaited by t
wait_send(s, ch, t, value) ==
    IF s.callback[t] = None
    THEN Raise([s EXCEPT !.obs.wokenBy[t] = value], AssertionError)
    ELSE wait_callback(wait_send_cleanup([s EXCEPT !.obs.wokenBy[t] = value],
                                         t, value),
                       ch, t,
                       IF value = TIMEOUT_INDICATOR THEN TIMEOUT_ERROR ELSE value)

\* wait.throw(exception) of the wait object awaited by t
wait_throw(s, ch, t, exception) ==
    IF s.callback[t] = None
    THEN Raise(s, AssertionError)
    ELSE wait_callback(PausedDiscardKey(QueueDiscard(s, WaitObj(t)),
                                        s.wif[t], WaitObj(t)),
                       ch, t, exception)

step(s, ch, task, value) ==
    IF task \in Waits
    THEN IF IsBaseException(value)
         THEN wait_contain(wait_throw(step_begin(s, task, value), ch,
                                      WaitOwner(task), value))
         ELSE wait_contain(wait_send(step_begin(s, task, value), ch,
                                     WaitOwner(task), value))
    ELSE gen_step(s, ch, task, value)


\* --------------------------------------------------------- task behaviours
\* What the code of task t may do when it is resumed: end, fail, yield
\* something that is no syscall, or await one of the syscalls.  For a
\* generator that has ended the choice is what throw() does: CPython raises
\* the thrown exception, MicroPython raises StopIteration.
Choices(t) ==
    IF gen[t] = "done" THEN {Op("stop", 0, FALSE), Op("reraise", 0, FALSE)} ELSE
    {Op("return", 0, FALSE), Op("raise", 0, FALSE), Op("bad", 0, FALSE)}
    \cup {Op("return", 1, FALSE) : x \in IF gen[t] = "susp" THEN {1} ELSE {}}
    \cup IF budget = 0 THEN {}
         ELSE {c \in
                 {Op("sleep", d, FALSE) : d \in 0 .. MaxSleep}
                 \cup {Op("wait", i, to) : i \in Ifaces, to \in BOOLEAN}
                 \cup {Op("race", k, FALSE) :
                           k \in 1 .. Min2(MaxChildren, NumTasks - alloc)}
                 \cup {Op("put", v, FALSE) : v \in ChanVals}
                 \cup {Op("take", 0, FALSE)} : c.op \in menu.ops}

\* ------------------------------------------------------------------- run()
RECURSIVE step_all(_, _, _, _)

FirstOf(msg_tasks) == CHOOSE x \in msg_tasks : \A y \in msg_tasks : x <= y

\* for task in msg_tasks: _step(task, value)
step_all(s, ch, msg_tasks, value) ==
    IF s.exc # 0 \/ msg_tasks = {}
    THEN s
    ELSE step_all(step(s, ch, FirstOf(msg_tasks), value), ch,
                  msg_tasks \ {FirstOf(msg_tasks)}, value)

\* while _queue or _paused:
loop_condition(q, p) == q # <<>> \/ DOMAIN p # {}

\* A delay computed as ticks_diff(now, deadline), the operands exchanged.
run_delay_exchanged(s) ==
    IF s.queue # <<>> THEN ticks_diff(s.now, s.queue[1].deadline) ELSE PollCap

\* the delay computed at the top of an iteration
run_delay(s) ==
    IF s.queue # <<>> THEN ticks_diff(s.queue[1].deadline, s.now) ELSE PollCap

\* the processing of the synthetic events at the top of an iteration
run_synthetic(s, ch) ==
    IF s.synthetic_events = <<>>
    THEN s
    ELSE IF PausedGet(s.paused, s.synthetic_events[1][1]) = {}
    THEN PausedPop(s, s.synthetic_events[1][1])
    ELSE step_all([PausedPop(s, s.synthetic_events[1][1])
                      EXCEPT !.synthetic_events = Tail(@)],
                  ch, PausedGet(s.paused, s.synthetic_events[1][1]),
                  s.synthetic_events[1][2])

\* io.poll returned true with (iface, value) after elapsed ticks
poll_message(s, ch, iface, value, elapsed) ==
    IF s.exc # 0
    THEN s
    ELSE step_all(PausedPop([s EXCEPT !.now = ticks_add(@, elapsed)], iface),
                  ch, PausedGet(s.paused, iface), value)

\* io.poll returned false after the delay
poll_timeout(s, ch, delay) ==
    IF s.exc # 0
    THEN s
    ELSE IF s.queue # <<>>
    THEN step([s EXCEPT !.now = ticks_add(@, Max2(delay, 0)), !.queue = Tail(@)],
              ch, s.queue[1].task, s.queue[1].value)
    ELSE [s EXCEPT !.now = ticks_add(@, Max2(delay, 0))]

\* one iteration of run() with a message / with a timeout
run_message(s, ch, iface, value, elapsed) ==
    poll_message(run_synthetic(s, ch), ch, iface, value, elapsed)

run_timeout(s, ch) == poll_timeout(run_synthetic(s, ch), ch, run_delay(s))

\* ----------------------------------------------------------------- actions
NoOp == [op |-> "none", task |-> 0, pre |-> "", aw |-> ""]

Commit(s, last, run) ==
    /\ queue' = s.queue
    /\ paused' = s.paused
    /\ finalizers' = s.finalizers
    /\ synthetic_events' = s.synthetic_events
    /\ gen' = s.gen
    /\ awk' = s.awk
    /\ wif' = s.wif
    /\ wto' = s.wto
    /\ putv' = s.putv
    /\ callback' = s.callback
    /\ rcallback' = s.rcallback
    /\ scheduled' = s.scheduled
    /\ finished' = s.finished
    /\ putters' = s.putters
    /\ takers' = s.takers
    /\ now' = s.now
    /\ alloc' = s.alloc
    /\ budget' = s.budget
    /\ obs' = [s.obs EXCEPT !.last = last]
    /\ err' = s.exc
    /\ run_state' = run

InitTables ==
    /\ queue = <<>>
    /\ paused = <<>>
    /\ finalizers = [t \in Tasks |-> NoFin]
    /\ synthetic_events = <<>>
    /\ gen = [t \in Tasks |-> "fresh"]
    /\ awk = [t \in Tasks |-> "none"]
    /\ wif = [t \in Tasks |-> 0]
    /\ wto = [t \in Tasks |-> FALSE]
    /\ putv = [t \in Tasks |-> None]
    /\ callback = [t \in Tasks |-> None]
    /\ rcallback = [t \in Tasks |-> None]
    /\ scheduled = [t \in Tasks |-> <<>>]
    /\ finished = [t \in Tasks |-> FALSE]
    /\ putters = <<>>
    /\ takers = <<>>
    /\ now = 0
    /\ alloc = 0
    /\ budget = MaxSyscalls
    /\ spawned = 0
    /\ run_state = "idle"
    /\ err = 0
    /\ obs = [finCalls |-> [t \in Tasks |-> 0],
              finRes |-> [t \in Tasks |-> None],
              firstFin |-> [t \in Tasks |-> NoFin],
              raceSched |-> [t \in Tasks |-> 0],
              raceVal |-> [t \in Tasks |-> None],
              lastSent |-> [t \in Tasks |-> NoFin],
              wokenBy |-> [t \in Tasks |-> None],
              deadSteps |-> {},
              last |-> NoOp]

\* the end of an iteration of run(): an exception leaves run()
CommitRun(s) == Commit(s, NoOp, IF s.exc = 0 THEN "running" ELSE "failed")

\* the end of an iteration of run() that dispatched a message on iface to
\* the objects paused on it
MessageOp(iface) ==
    IF PausedGet(paused, iface) = {}
    THEN NoOp
    ELSE [op |-> "message", task |-> iface, pre |-> "", aw |-> ""]

CommitMessage(s, iface) ==
    Commit(s, MessageOp(iface), IF s.exc = 0 THEN "running" ELSE "failed")

\* The program is alive until run() has returned or failed.
Alive == run_state \in {"idle", "running"}

\* the generator that _step(x, value) resumes: x itself, or the callback of
\* the wait object x
ResumedBy(x) ==
    IF x \in Tasks THEN {x}
    ELSE IF x \in Waits THEN {callback[WaitOwner(x)]} \cap Tasks
    ELSE {}

\* the objects the synthetic event at the head of synthetic_events resumes
SyntheticObjs ==
    IF synthetic_events # <<>>
    THEN PausedGet(paused, synthetic_events[1][1])
    ELSE {}

\* the generators an iteration with a timeout / with a message on iface i
\* resumes
TimeoutTasks ==
    UNION {ResumedBy(x) :
             x \in SyntheticObjs \cup
                    (IF queue # <<>> THEN {queue[1].task} ELSE {})}

MessageTasks(i) ==
    UNION {ResumedBy(x) : x \in SyntheticObjs \cup PausedGet(paused, i)}

\* the behaviours of the generators in ts when they are resumed
Behaviours(ts) ==
    {ch \in [ts -> UNION {Choices(t) : t \in ts}] : \A t \in ts : ch[t] \in Choices(t)}

\* schedule(task) / schedule(task, finalizer=f) of a new generator
Spawn(withFin) ==
    /\ Alive
    /\ alloc < NumTasks /\ spawned < menu.roots
    /\ spawned' = spawned + 1
    /\ UNCHANGED menu
    /\ Commit(schedule([State EXCEPT !.alloc = alloc + 1], alloc + 1, None, now,
                       IF withFin THEN ExtFin ELSE NoFin),
              NoOp, run_state)

\* schedule(task) / schedule(task, finalizer=f) of a generator the program
\* holds
Schedule(t, withFin) ==
    /\ Alive
    /\ t \in 1 .. alloc
    /\ UNCHANGED <<spawned, menu>>
    /\ Commit(schedule(State, t, None, now, IF withFin THEN ExtFin ELSE NoFin),
              [op |-> "schedule", task |-> t, pre |-> gen[t], aw |-> awk[t]],
              run_state)

\* pause(task, iface) called on a generator the program holds
Pause(t, i) ==
    /\ Alive
    /\ t \in 1 .. alloc
    /\ UNCHANGED <<spawned, menu>>
    /\ Commit(pause(State, t, i), NoOp, run_state)

\* close(task) called on a generator the program holds
CloseTask(t) ==
    /\ Alive
    /\ t \in 1 .. alloc
    /\ UNCHANGED <<spawned, menu>>
    /\ Commit(close(State, t),
              [op |-> "close", task |-> t, pre |-> gen[t], aw |-> awk[t]],
              run_state)

\* chan.publish(value)
Publish(v) ==
    /\ Alive
    /\ Len(putters) < MaxPublished
    /\ UNCHANGED <<spawned, menu>>
    /\ Commit(publish(State, v), NoOp, run_state)

\* synthetic_events.append((iface, value))
InjectEvent(i, v) ==
    /\ Alive
    /\ Len(synthetic_events) < MaxSynthetic
    /\ UNCHANGED <<spawned, menu>>
    /\ Commit([State EXCEPT !.synthetic_events = Append(@, <<i, v>>)], NoOp, run_state)

\* run() is called
RunStart ==
    /\ run_state = "idle"
    /\ UNCHANGED <<spawned, menu>>
    /\ Commit(State, NoOp, "running")

\* while _queue or _paused: is false, run() returns
RunReturn ==
    /\ run_state = "running"
    /\ ~loop_condition(queue, paused)
    /\ UNCHANGED <<spawned, menu>>
    /\ Commit(State, NoOp, "returned")

\* one iteration of run() in which io.poll reports a message
RunMessage(i, v) ==
    /\ run_state = "running"
    /\ loop_condition(queue, paused)
    /\ UNCHANGED <<spawned, menu>>
    /\ \E elapsed \in 0 .. Max2(run_delay(State) - 1, 0) :
         \E ch \in Behaviours(MessageTasks(i)) :
             CommitMessage(run_message(State, ch, i, v, elapsed), i)

\* one iteration of run() in which io.poll times out
RunTimeout ==
    /\ run_state = "running"
    /\ loop_condition(queue, paused)
    /\ UNCHANGED <<spawned, menu>>
    /\ \E ch \in Behaviours(TimeoutTasks) : CommitRun(run_timeout(State, ch))

\* Tasks that sleep, wait and race, closed from outside at any point.
Init == InitTables /\ menu = [ops |-> {"sleep", "wait", "race"}, roots |-> 1]

Next ==
    \/ \E withFin \in BOOLEAN : Spawn(withFin)
    \/ \E t \in Tasks : CloseTask(t)
    \/ RunStart
    \/ RunReturn
    \/ \E i \in Ifaces, v \in EventVals : RunMessage(i, v)
    \/ RunTimeout

Spec == Init /\ [][Next]_vars

\* Tasks that use the channel, with values published from outside.
InitChan == InitTables /\ menu = [ops |-> {"sleep", "put", "take"}, roots |-> 2]

NextChan ==
    \/ \E withFin \in BOOLEAN : Spawn(withFin)
    \/ \E t \in Tasks : CloseTask(t)
    \/ \E v \in ChanVals : Publish(v)
    \/ RunStart
    \/ RunReturn
    \/ \E i \in Ifaces, v \in EventVals : RunMessage(i, v)
    \/ RunTimeout

SpecChan == InitChan /\ [][NextChan]_vars

\* The debug build with events injected into synthetic_events.
InitDebug == InitTables /\ menu = [ops |-> {"sleep", "wait"}, roots |-> 2]

NextDebug ==
    \/ \E withFin \in BOOLEAN : Spawn(withFin)
    \/ \E t \in Tasks : CloseTask(t)
    \/ \E i \in Ifaces, v \in EventVals : InjectEvent(i, v)
    \/ RunStart
    \/ RunReturn
    \/ \E i \in Ifaces, v \in EventVals : RunMessage(i, v)
    \/ RunTimeout

SpecDebug == InitDebug /\ [][NextDebug]_vars

\* A generator that awaits nothing, scheduled from outside again and again
\* until the timed queue is full.
InitFull == InitTables /\ menu = [ops |-> {}, roots |-> 1]

NextFull ==
    \/ \E withFin \in BOOLEAN : Spawn(withFin)
    \/ \E t \in Tasks, withFin \in BOOLEAN : Schedule(t, withFin)
    \/ \E t \in Tasks : CloseTask(t)
    \/ RunStart
    \/ RunReturn
    \/ \E i \in Ifaces, v \in EventVals : RunMessage(i, v)
    \/ RunTimeout

SpecFull == InitFull /\ [][NextFull]_vars

\* A generator that sleeps and waits, and that is also paused on interfaces
\* from outside.  A generator resumed while its wait object is still paused
\* abandons that object; the abandoned object and the next one it awaits are
\* both WaitObj(t).
InitPause == InitTables /\ menu = [ops |-> {"sleep", "wait"}, roots |-> 1]

NextPause ==
    \/ \E withFin \in BOOLEAN : Spawn(withFin)
    \/ \E t \in Tasks, i \in Ifaces : Pause(t, i)
    \/ \E t \in Tasks : CloseTask(t)
    \/ RunStart
    \/ RunReturn
    \/ \E i \in Ifaces, v \in EventVals : RunMessage(i, v)
    \/ RunTimeout

SpecPause == InitPause /\ [][NextPause]_vars

TypeOK ==
    /\ alloc \in 0 .. NumTasks
    /\ now \in 0 .. TicksPeriod - 1
    /\ Len(queue) <= QueueCapacity
    /\ \A t \in Tasks : gen[t] \in {"fresh", "susp", "done"}


\* ------------------------------------------------------------- properties
\* A finalizer was registered for t at some point.
HadFinalizer(t) == finalizers[t] # NoFin \/ obs.finCalls[t] > 0

InTables(x) == x \in QueueTasks(queue) \/ x \in PausedObjs(paused)

\* The last operation was close(t) on a generator that had not ended.
ClosedNow(t) ==
    obs.last.op = "close" /\ obs.last.task = t /\ obs.last.pre \in {"fresh", "susp"}

\* C1: the finalizer of a task is invoked at most once, and it has been
\* invoked exactly once as soon as the task has terminated, faulted or been
\* closed.
C1_FinalizerExactlyOnce ==
    \A t \in Tasks :
        /\ obs.finCalls[t] <= 1
        /\ (HadFinalizer(t) /\ gen[t] = "done") => obs.finCalls[t] = 1

\* C2: after close(t) has returned, for a task that was suspended or not yet
\* started, neither the timed queue nor a paused set contains t, and the
\* finalizer of t, if one was registered, has been called once with
\* GeneratorExit.
C2_CloseLeavesNoEntry ==
    \A t \in Tasks :
        (ClosedNow(t) /\ err = 0) =>
            /\ ~InTables(t)
            /\ HadFinalizer(t) =>
                   (obs.finCalls[t] = 1 /\ obs.finRes[t] = GeneratorExit)

\* C3: whenever the timed queue has no entry and no interface has a task
\* paused on it, the loop condition of run() is false, so run() returns.
C3_RunReturnsWhenNothingWaits ==
    (run_state = "running" /\ queue = <<>> /\ PausedObjs(paused) = {})
        => ~loop_condition(queue, paused)

\* The first child of the race awaited by c to be finalized terminated or
\* faulted (it was not closed).
ChildFinished(c) == obs.firstFin[c] \notin {NoFin, GeneratorExit}

\* C4: a race schedules its caller at most once, and as soon as a first child
\* of the race has terminated or faulted the caller has been scheduled exactly
\* once, with the result of that child.
C4_RaceResumesCallerOnce ==
    \A c \in Tasks :
        /\ obs.raceSched[c] <= 1
        /\ ChildFinished(c) =>
               (obs.raceSched[c] = 1 /\ obs.raceVal[c] = obs.firstFin[c])

\* C5: once a child of a race has finished, every scheduled child has ended,
\* neither a child nor the wait object it was blocked on is in the timed queue
\* or in a paused set, and no child is stepped after it has ended.
C5_RaceLosersClosed ==
    \A c \in Tasks :
        (finished[c] /\ ChildFinished(c)) =>
            \A i \in 1 .. Len(scheduled[c]) :
                LET child == scheduled[c][i]
                IN  /\ gen[child] = "done"
                    /\ ~InTables(child)
                    /\ ~InTables(WaitObj(child))
                    /\ child \notin obs.deadSteps

\* C6: when a task awaiting a race is closed, every scheduled child of the
\* race is closed, and after close() has returned no child and no wait object
\* of a child is in the timed queue or in a paused set.
C6_ClosedRaceClosesChildren ==
    \A c \in Tasks :
        (ClosedNow(c) /\ obs.last.aw = "race") =>
            \A i \in 1 .. Len(scheduled[c]) :
                LET child == scheduled[c][i]
                IN  /\ gen[child] = "done"
                    /\ err = 0 => (~InTables(child) /\ ~InTables(WaitObj(child)))

\* C7: when the scheduler resumes the wait object of a task that awaits
\* Wait(iface) without a timeout with the event value v, the task has been
\* resumed with v.
C7_WaitDeliversEvent ==
    \A t \in Tasks :
        (obs.wokenBy[t] # None /\ ~wto[t]) => obs.lastSent[t] = obs.wokenBy[t]

\* A task is suspended in Wait(iface, timeout).
TimedWaiting(t) == gen[t] = "susp" /\ awk[t] = "wait" /\ wto[t]

AnyChoice == [t \in Tasks |-> Op("return", 0, FALSE)]

TimeoutDelivered(s, t) ==
    /\ s.obs.lastSent[t] = TIMEOUT_ERROR
    /\ WaitObj(t) \notin QueueTasks(s.queue) \cup PausedObjs(s.paused)

\* C8: while a task awaits Wait(iface, timeout) the timeout is scheduled for
\* the wait object, and when it fires the task is resumed with the timeout
\* error and the wait object is left in neither the paused set nor the queue.
C8_WaitTimeoutDelivered ==
    \A t \in Tasks :
        TimedWaiting(t) =>
            /\ \E i \in 1 .. Len(queue) :
                   queue[i].task = WaitObj(t) /\ queue[i].value = TIMEOUT_INDICATOR
            /\ TimeoutDelivered(step(State, AnyChoice, WaitObj(t), TIMEOUT_INDICATOR), t)

EventDelivered(s, t, v) ==
    /\ s.obs.lastSent[t] = v
    /\ WaitObj(t) \notin QueueTasks(s.queue)

\* C9: while a task awaits Wait(iface, timeout), an event on iface resumes the
\* task with the event value and leaves no timeout entry of the wait object in
\* the timed queue.
C9_EventCancelsTimeout ==
    \A t \in Tasks :
        TimedWaiting(t) =>
            \A v \in EventVals :
                EventDelivered(run_message(State, AnyChoice, wif[t], v, 0), t, v)

\* C10: when a task awaiting a Wait is closed, close() raises nothing, the wait
\* object is in neither the paused sets nor the timed queue, and the task has
\* been finalized with GeneratorExit.
C10_CloseWhileWaiting ==
    \A t \in Tasks :
        (ClosedNow(t) /\ obs.last.aw = "wait") =>
            /\ err = 0
            /\ ~InTables(WaitObj(t))
            /\ gen[t] = "done"
            /\ HadFinalizer(t) =>
                   (obs.finCalls[t] = 1 /\ obs.finRes[t] = GeneratorExit)

\* ------------------------------------------------------------------ channel
\* C11: at most one of the queues putters and takers of the channel is
\* non-empty.
C11_OneQueueNonEmpty == putters = <<>> \/ takers = <<>>

\* Two entries are parked in putters and a parked task has just been closed.
C11_Witness == Len(putters) >= 2 /\ obs.last.op = "close" /\ obs.last.aw = "put"

\* seq without its i-th and j-th elements
Without2(seq, i, j) ==
    [n \in 1 .. Len(seq) - 2 |->
        IF n < i THEN seq[n] ELSE IF n + 1 < j THEN seq[n + 1] ELSE seq[n + 2]]

\* In s, reached from the current state by a put meeting a take, the taker
\* has one new queue entry with the value v, the putter one new entry with
\* None, due now, the taker's before the putter's, and nothing else changed
\* in the queue.
Rendezvous(s, taker, putter, v) ==
    /\ s.exc = 0
    /\ Len(s.queue) = Len(queue) + 2
    /\ \E i, j \in 1 .. Len(s.queue) :
           /\ i < j
           /\ s.queue[i] = [deadline |-> now, task |-> taker, value |-> v]
           /\ s.queue[j] = [deadline |-> now, task |-> putter, value |-> None]
           /\ Without2(s.queue, i, j) = queue

\* C12: when a put(v) meets a parked taker, or a take meets a parked put(v),
\* the taker is scheduled once with v and the putter once with None, the
\* taker before the putter, and the parked entry leaves its queue.
C12_Rendezvous ==
    /\ takers # <<>> =>
           \A p \in (1 .. alloc) \ {Head(takers)}, v \in ChanVals :
               /\ Rendezvous(schedule_put(State, p, v), Head(takers), p, v)
               /\ schedule_put(State, p, v).takers = Tail(takers)
               /\ schedule_put(State, p, v).putters = putters
    /\ (putters # <<>> /\ Head(putters)[1] # None) =>
           \A t \in (1 .. alloc) \ {Head(putters)[1]} :
               /\ Rendezvous(schedule_take(State, t), t,
                             Head(putters)[1], Head(putters)[2])
               /\ schedule_take(State, t).putters = Tail(putters)
               /\ schedule_take(State, t).takers = takers

\* A taker due with a channel value is queued before a putter due with None,
\* both still suspended at their yield: a rendezvous has just happened.
C12_Witness ==
    \E i, j \in 1 .. Len(queue) :
        /\ i < j
        /\ queue[i].task \in Tasks /\ queue[j].task \in Tasks
        /\ awk[queue[i].task] = "take" /\ queue[i].value \in ChanVals
        /\ awk[queue[j].task] = "put" /\ queue[j].value = None
        /\ gen[queue[i].task] = "susp" /\ gen[queue[j].task] = "susp"

\* number of entries of the timed queue q that resume task with value
Entries(q, task, value) ==
    Cardinality({i \in 1 .. Len(q) : q[i].task = task /\ q[i].value = value})

\* s has one more queue entry that resumes task with value than the current
\* state
Hands(s, task, value) ==
    Entries(s.queue, task, value) = Entries(queue, task, value) + 1

\* in q an entry resuming t1 with a comes before one resuming t2 with b
Before(q, t1, a, t2, b) ==
    \E i, j \in 1 .. Len(q) :
        /\ i < j
        /\ q[i].task = t1 /\ q[i].value = a
        /\ q[j].task = t2 /\ q[j].value = b

\* C13: a put or publish that finds no taker parks its value at the end of
\* putters and a take that finds no value parks at the end of takers; a take
\* receives the value at the head of putters and a put or publish hands its
\* value to the taker at the head of takers; publish a; publish b; take;
\* take on an empty channel yields a and then b.
C13_ChannelFifo ==
    /\ \A t \in 1 .. alloc :
           IF putters # <<>>
           THEN /\ Hands(schedule_take(State, t), t, Head(putters)[2])
                /\ schedule_take(State, t).putters = Tail(putters)
           ELSE schedule_take(State, t).takers = Append(takers, t)
    /\ \A v \in ChanVals :
           IF takers # <<>>
           THEN /\ Hands(publish(State, v), Head(takers), v)
                /\ publish(State, v).takers = Tail(takers)
           ELSE publish(State, v).putters = Append(putters, <<None, v>>)
    /\ \A p \in 1 .. alloc, v \in ChanVals :
           IF takers # <<>>
           THEN /\ Hands(schedule_put(State, p, v), Head(takers), v)
                /\ schedule_put(State, p, v).takers = Tail(takers)
           ELSE schedule_put(State, p, v).putters = Append(putters, <<p, v>>)
    /\ (putters = <<>> /\ takers = <<>> /\ queue = <<>>) =>
           \A a, b \in ChanVals, t1, t2 \in 1 .. alloc :
               Before(schedule_take(
                          schedule_take(publish(publish(State, a), b), t1),
                          t2).queue,
                      t1, a, t2, b)

\* A suspended taker has been handed a value while a different value, parked
\* after it, still waits in putters.
C13_Witness ==
    \E i \in 1 .. Len(queue) :
        /\ queue[i].task \in Tasks
        /\ gen[queue[i].task] = "susp" /\ awk[queue[i].task] = "take"
        /\ queue[i].value \in ChanVals
        /\ putters # <<>> /\ Head(putters)[2] # queue[i].value

\* the published values parked in putters, in order
IsPublished(e) == e[1] = None

Pubs(seq) == SelectSeq(seq, IsPublished)

\* A step leaves the published values parked in the channel alone, or parks
\* one more at the end while no taker waits, or removes the oldest one and
\* queues one new entry that resumes a suspended taker with it.
PublishedKept ==
    \/ Pubs(putters') = Pubs(putters)
    \/ /\ takers = <<>>
       /\ \E v \in ChanVals : Pubs(putters') = Append(Pubs(putters), <<None, v>>)
    \/ /\ Pubs(putters) # <<>>
       /\ Pubs(putters') = Tail(Pubs(putters))
       /\ \E t \in Tasks :
              /\ gen'[t] = "susp" /\ awk'[t] = "take"
              /\ Entries(queue', t, Head(Pubs(putters))[2]) = 1
              /\ \A u \in Tasks \ {t}, v \in ChanVals :
                     Entries(queue', u, v) <= Entries(queue, u, v)

\* chan.publish(v) in the current state hands v to the taker at the head of
\* takers and to nobody else, or parks it.
PublishDelivers ==
    \A v \in ChanVals :
        IF takers # <<>>
        THEN /\ Hands(publish(State, v), Head(takers), v)
             /\ Len(publish(State, v).queue) = Len(queue) + 1
             /\ publish(State, v).takers = Tail(takers)
             /\ publish(State, v).putters = putters
        ELSE /\ publish(State, v).putters = Append(putters, <<None, v>>)
             /\ publish(State, v).queue = queue

\* C14: a published value is handed to the taker at the head of takers, or
\* is parked in putters; a parked published value leaves the channel only by
\* being handed to one taker, oldest first.
C14_PublishedToOneTaker == []PublishDelivers /\ [][PublishedKept]_vars

\* No task has put anything, and a suspended taker is queued with a channel
\* value: a published value has been delivered.
C14_Witness ==
    /\ \A t \in Tasks : putv[t] = None
    /\ \E i \in 1 .. Len(queue) :
           /\ queue[i].task \in Tasks
           /\ gen[queue[i].task] = "susp" /\ awk[queue[i].task] = "take"
           /\ queue[i].value \in ChanVals

\* the entries of putters / takers that are not those of task t
PuttersWithout(seq, t) == SelectSeq(seq, LAMBDA e : e[1] # t)

TakersWithout(seq, t) == SelectSeq(seq, LAMBDA e : e # t)

\* This step is close(t) of a task suspended in chan.put or chan.take: t had
\* at most one parked entry, and the two queues are as before without it.
CloseKeepsOthers ==
    \A t \in Tasks :
        (obs'.last.op = "close" /\ obs'.last.task = t
            /\ obs'.last.pre = "susp" /\ obs'.last.aw \in {"put", "take"}) =>
            /\ Len(putters) - Len(PuttersWithout(putters, t)) <= 1
            /\ Len(takers) - Len(TakersWithout(takers, t)) <= 1
            /\ putters' = PuttersWithout(putters, t)
            /\ takers' = TakersWithout(takers, t)
            /\ t \notin {putters'[i][1] : i \in 1 .. Len(putters')}
            /\ t \notin {takers'[i] : i \in 1 .. Len(takers')}

\* C15: when a task parked in putters or takers is closed, exactly its own
\* entry is removed and every other entry stays in place, in the same order.
C15_CloseRemovesOwnEntry == [][CloseKeepsOthers]_vars

\* The task just closed was suspended in chan.put, no other task has run (so
\* no taker ever met it: it was parked), and a published value is still
\* parked.
C15_Witness ==
    /\ obs.last.op = "close" /\ obs.last.pre = "susp" /\ obs.last.aw = "put"
    /\ \A u \in Tasks \ {obs.last.task} : gen[u] = "fresh"
    /\ putters # <<>>

\* ---------------------------------------------------------------- timing
\* In the iteration of run() that starts in the current state and ends with a
\* timeout, with the tasks behaving as ch says, the entry popped from the
\* timed queue (its head after the synthetic events were processed) is due
\* at the time of the pop.
PoppedWhenDue(ch) ==
    (run_synthetic(State, ch).exc = 0 /\ run_synthetic(State, ch).queue # <<>>) =>
        ticks_diff(run_synthetic(State, ch).queue[1].deadline,
                   run_timeout(State, ch).now) <= 0

Without1(q, i) == [n \in 1 .. Len(q) - 1 |-> IF n < i THEN q[n] ELSE q[n + 1]]

\* s is the current state with exactly one more queue entry, (d, task, d)
SleepInserted(s, task, d) ==
    /\ s.exc = 0
    /\ \E i \in 1 .. Len(s.queue) :
           /\ s.queue[i] = [deadline |-> d, task |-> task, value |-> DeadlineVal(d)]
           /\ Without1(s.queue, i) = queue

\* C17: sleep(delta).handle(task) inserts exactly one entry (d, task, d) with
\* d = ticks_add(now, delta), for delta = 0 the entry is due now, and a task
\* suspended in sleep has exactly one entry, whose value is its deadline.
C17_SleepSchedulesDeadline ==
    /\ \A t \in 1 .. alloc, delta \in 0 .. MaxSleep :
           SleepInserted(sleep_handle(State, t, delta), t, ticks_add(now, delta))
    /\ \A t \in 1 .. alloc :
           SleepInserted(sleep_handle(State, t, 0), t, now)
    /\ \A t \in Tasks :
           (gen[t] = "susp" /\ awk[t] = "sleep") =>
               /\ Cardinality({i \in 1 .. Len(queue) : queue[i].task = t}) = 1
               /\ \A i \in 1 .. Len(queue) :
                      queue[i].task = t =>
                          queue[i].value = DeadlineVal(queue[i].deadline)

\* A task that was resumed from a sleep with its deadline sleeps again, and
\* its entry is due one tick from now.
C17_Witness ==
    \E t \in Tasks :
        /\ gen[t] = "susp" /\ awk[t] = "sleep"
        /\ obs.lastSent[t] \in {DeadlineVal(d) : d \in 0 .. TicksPeriod - 1}
        /\ \E i \in 1 .. Len(queue) :
               queue[i].task = t /\ queue[i].deadline = ticks_add(now, 1)

\* -------------------------------------------------------------- task faults
\* C18: when _step has thrown an exception into a suspended task that had a
\* finalizer and the task has let it propagate, the finalizer has been called
\* once with that exception and run() has not failed; and no exception of a
\* task (its own, a timeout error or GeneratorExit) ever leaves run().
C18_FaultFinalizedLoopContinues ==
    /\ \A t \in Tasks :
           (gen[t] = "done" /\ IsBaseException(obs.lastSent[t]) /\ HadFinalizer(t)) =>
               /\ obs.finCalls[t] = 1
               /\ obs.finRes[t] = obs.lastSent[t]
               /\ run_state # "failed"
    /\ run_state = "failed" => err \notin {GeneratorExit, TaskError, TIMEOUT_ERROR}

\* ------------------------------------------------------------ table shape
QueueEntries(x) == Cardinality({i \in 1 .. Len(queue) : queue[i].task = x})

PausedSets(x) == Cardinality({i \in DOMAIN paused : x \in paused[i]})

\* C19: every task has at most one entry in the timed queue and is in at
\* most one paused set, and not in both; every wait object has at most one
\* entry in each, and in both only when it has a timeout.
C19_OneSchedulingEntry ==
    /\ \A t \in Tasks :
           /\ QueueEntries(t) <= 1
           /\ PausedSets(t) <= 1
           /\ QueueEntries(t) + PausedSets(t) <= 1
    /\ \A t \in Tasks :
           /\ QueueEntries(WaitObj(t)) <= 1
           /\ PausedSets(WaitObj(t)) <= 1
           /\ QueueEntries(WaitObj(t)) + PausedSets(WaitObj(t)) = 2 => wto[t]

\* The caller of a finished race and another generator are in the timed
\* queue at once.
C19_Witness ==
    /\ Cardinality(QueueTasks(queue) \cap Tasks) >= 2
    /\ \E c \in Tasks : finished[c] /\ c \in QueueTasks(queue)

\* s differs from the current state in no table and no finalizer was called
SameTables(s) ==
    /\ s.exc = 0
    /\ s.queue = queue
    /\ s.paused = paused
    /\ s.finalizers = finalizers
    /\ s.obs.finCalls = obs.finCalls

\* C20: after close(t) has returned, a second close(t) calls no finalizer and
\* leaves the timed queue, the paused table and the finalizer table as they
\* are.
C20_CloseIdempotent ==
    \A t \in Tasks :
        (obs.last.op = "close" /\ obs.last.task = t /\ err = 0) =>
            SameTables(close(State, t))

\* ------------------------------------------------------------ loop exit
\* C21: when run() has returned, every generator that was ever scheduled has
\* ended, and its finalizer, if it had one, has been called once.
C21_AllFinalizedAtReturn ==
    run_state = "returned" =>
        \A t \in 1 .. alloc :
            /\ gen[t] = "done"
            /\ HadFinalizer(t) => obs.finCalls[t] = 1

\* C22: a task that has yielded None (it is suspended and awaits no syscall)
\* is scheduled to continue, and run() has not failed.
C22_YieldNoneContinues ==
    \A t \in Tasks :
        (gen[t] = "susp" /\ awk[t] = "none") =>
            /\ run_state # "failed"
            /\ t \in QueueTasks(queue)

\* ------------------------------------------------------------------ hook
\* every call of _step that the operation made and that returned was
\* followed by a call of after_step_hook
HookedSteps(s) == s.exc = 0 => s.hooks = Len(s.steps)

\* C23: in every iteration of run() that ends with a timeout, after_step_hook
\* is called once for every step of a task, whether the step yielded a
\* syscall, ended the task or caught its exception.
C23_HookAfterEveryStep ==
    (run_state = "running" /\ loop_condition(queue, paused)) =>
        \A ch \in Behaviours(TimeoutTasks) : HookedSteps(run_timeout(State, ch))

\* ------------------------------------------------------------- capacity
\* s is the current state after a schedule() that was refused: IndexError is
\* raised and the three tables are as they were
ScheduleRefused(s) ==
    /\ s.exc = IndexError
    /\ s.queue = queue
    /\ s.paused = paused
    /\ s.finalizers = finalizers

\* s is the current state after a schedule() that added its entry
ScheduleAccepted(s) == s.exc = 0 /\ Len(s.queue) = Len(queue) + 1

\* C24: the timed queue holds at most 64 entries; schedule() called while it
\* holds 64 raises an error and leaves the timed queue, the paused table and
\* the finalizer table unchanged, and called while it holds fewer it adds
\* its entry.
C24_FullQueueRefusesSchedule ==
    /\ Len(queue) <= QueueCapacity
    /\ \A t \in 1 .. alloc, fin \in {NoFin, ExtFin} :
           IF Len(queue) = QueueCapacity
           THEN ScheduleRefused(schedule(State, t, None, now, fin))
           ELSE ScheduleAccepted(schedule(State, t, None, now, fin))

\* ------------------------------------------------------------- dispatch
\* generator t, paused on iface and resumed as ch says, awaits wait(iface)
\* again
PausesAgain(ch, t, iface) ==
    /\ t \in PausedGet(paused, iface) \cap Tasks
    /\ gen[t] = "susp"
    /\ ch[t].op = "wait" /\ ch[t].a = iface

\* s is the current state after the dispatch of the event (iface, v) with the
\* generators behaving as ch says: every object that was paused on iface was
\* stepped once with v and nothing else was stepped; the entry of iface now
\* holds only the wait objects that were paused during the dispatch; the
\* objects paused on the other interfaces are still paused there.
Dispatched(s, ch, iface, v) ==
    s.exc = 0 =>
        /\ Len(s.steps) = Cardinality(PausedGet(paused, iface))
        /\ {s.steps[n] : n \in 1 .. Len(s.steps)} =
               {<<x, v>> : x \in PausedGet(paused, iface)}
        /\ \A x \in PausedGet(s.paused, iface) :
               x \in Waits /\ PausesAgain(ch, WaitOwner(x), iface)
        /\ \A t \in Tasks :
               PausesAgain(ch, t, iface) =>
                   WaitObj(t) \in PausedGet(s.paused, iface)
        /\ \A j \in DOMAIN paused \ {iface} :
               j \in DOMAIN s.paused /\ paused[j] \subseteq s.paused[j]

\* C25: an iteration of run() that receives the event (iface, v) removes the
\* entry of iface from the paused table before it steps a task, steps each
\* object of the entry once with v, leaves an object that is paused on iface
\* during the dispatch in a new entry without resuming it, and removes
\* nothing from the entries of the other interfaces.
C25_EventDispatch ==
    (run_state = "running" /\ loop_condition(queue, paused)) =>
        \A i \in Ifaces, v \in EventVals :
            \A ch \in Behaviours(MessageTasks(i)) :
                Dispatched(run_message(State, ch, i, v, 0), ch, i, v)

\* The last operation dispatched an event on an interface; a generator that
\* was resumed with the event value awaits wait() on that interface again and
\* its wait object is paused there, and an object is paused on another
\* interface.
C25_Witness ==
    /\ obs.last.op = "message" /\ err = 0
    /\ \E t \in Tasks :
           /\ obs.lastSent[t] \in EventVals
           /\ gen[t] = "susp" /\ awk[t] = "wait" /\ wif[t] = obs.last.task
           /\ WaitObj(t) \in PausedGet(paused, obs.last.task)
    /\ \E j \in Ifaces \ {obs.last.task} : PausedGet(paused, j) # {}

\* --------------------------------------------------------- no resurrection
\* C26: no iteration of run() steps a generator that has ended, whether it
\* was closed, returned or raised.
C26_EndedNeverStepped == obs.deadSteps = {}

====
